---- MODULE Spec2Model ----
(***************************************************************************)
(* Model of dags/firebase/firestore.py: the Firestore facade (add,         *)
(* add_with_existing_id, update, update_where, delete) over a remote       *)
(* document store.  The store is a mapping collection -> key -> document;  *)
(* a document is a mapping field name -> value.                            *)
(*                                                                         *)
(* Two specifications:                                                     *)
(*   Spec   every facade call runs alone, start to finish (one action per  *)
(*          call); `call` records the last call, its arguments, its result *)
(*          and the store before it.                                       *)
(*   SpecI  several callers; a call is split at its round trips to the     *)
(*          store (add: create, then patch; guarded update/delete: read,   *)
(*          then write), and the round trips of the callers interleave.    *)
(*                                                                         *)
(* Store semantics assumed of the client library: collection.add creates a *)
(* document under a fresh key; document.set creates or replaces;           *)
(* document.update merges top-level fields and fails with NotFound when    *)
(* the document does not exist; document.delete succeeds whether or not    *)
(* the document exists.  Patches are non-empty (the client rejects an      *)
(* empty update before any round trip) and field names are plain (no       *)
(* dotted field paths).  The keys the store assigns are never assigned     *)
(* twice, and every reading of the clock is later than the one before.     *)
(***************************************************************************)
EXTENDS Integers, FiniteSets, Sequences, TLC

VARIABLES store, now, issued, nops, call, pc, frame, touched

vars == <<store, now, issued, nops, call, pc, frame, touched>>

----------------------------------------------------------------------------
(* Bounds *)

MaxOps == 3         \* facade calls per behaviour of Spec
MaxCalls == 3       \* facade calls started per behaviour of SpecI

----------------------------------------------------------------------------
(* Values.  Every value is a pair <<kind, n>>. *)

Str(n) == <<"str", n>>                  \* a caller-chosen string
AutoId(n) == <<"id", n>>                \* a key assigned by the store
IsoFormat(t) == <<"ts", t>>             \* datetime.isoformat() of clock reading t
WriteResult(t) == <<"WriteResult", t>>  \* what document.set returns
None == <<"None", 0>>
True == <<"bool", 1>>
False == <<"bool", 0>>
ValueError == <<"raise", 1>>            \* exception propagated to the caller
NotFoundError == <<"raise", 2>>
StoreError == <<"raise", 3>>

\* dict.get(f): the value, or None when the field is missing
Get(d, f) == IF f \in DOMAIN d THEN d[f] ELSE None

Collections == {"users", "channels"}
FieldNames == {"uid", "name", "added_at"}
IdKeyNames == {"uid", "added_at"}
NoSuchKey == Str(0)                     \* a key no call ever writes

EmptyDict == [f \in {} |-> None]

\* every mapping from a subset of fields to vals
DictsOver(fields, vals) == UNION {[S -> vals] : S \in SUBSET fields}

\* data passed to add and add_with_existing_id
DataSet == DictsOver({"uid", "name"}, {Str(1)})
\* patches passed to update and update_where
Patches == {[f \in {g} |-> Str(2)] : g \in FieldNames}
\* filters passed to update_where
Filters == DictsOver({"uid", "name"}, {Str(1)})
\* values passed as the uid guard; None is "no guard"
Guards == {None, Str(1)}

----------------------------------------------------------------------------
(* Mappings and the store *)

\* mutant: fields already in the document win over the patch
MergeKeepingOld(d, patch) ==
    [f \in DOMAIN d \cup DOMAIN patch |-> IF f \in DOMAIN d THEN d[f] ELSE patch[f]]

\* {**d, **patch}; also the effect of document.update(patch) on fields d
Merge(d, patch) ==
    [f \in DOMAIN d \cup DOMAIN patch |-> IF f \in DOMAIN patch THEN patch[f] ELSE d[f]]

\* data = {**data, "added_at": time_now}
Stamp(data, t) == Merge(data, [f \in {"added_at"} |-> IsoFormat(t)])

Exists(st, C, id) == id \in DOMAIN st[C]

\* document(id).set(doc): create or replace
SetDoc(st, C, id, doc) ==
    [st EXCEPT ![C] = [x \in DOMAIN st[C] \cup {id} |-> IF x = id THEN doc ELSE st[C][x]]]

\* document(id).update(patch) on an existing document
UpdateDoc(st, C, id, patch) ==
    [st EXCEPT ![C] = [@ EXCEPT ![id] = Merge(@, patch)]]

\* document(id).delete()
DeleteDoc(st, C, id) ==
    [st EXCEPT ![C] = [x \in DOMAIN st[C] \ {id} |-> st[C][x]]]

\* document(id).get(): a snapshot with .exists and .to_dict()
Snapshot(st, C, id) ==
    [exists |-> Exists(st, C, id),
     fields |-> IF Exists(st, C, id) THEN st[C][id] ELSE [f \in {} |-> None]]

\* mutant: one matching constraint is enough (OR instead of AND)
MatchesAny(doc, key_values) ==
    \E key \in DOMAIN key_values : key \in DOMAIN doc /\ doc[key] = key_values[key]

\* the chained FieldFilter(key, "==", value) of update_where / query
Matches(doc, key_values) ==
    \A key \in DOMAIN key_values : key \in DOMAIN doc /\ doc[key] = key_values[key]

\* the key the store assigns on collection.add: one it never assigned before
\* (n keys assigned so far)
NewId(n) == AutoId(n + 1)

\* mutant: the identifier always goes to the field "uid"
IdPatchUid(id_key_name, doc_id) == [f \in {"uid"} |-> doc_id]

\* the second write of add: {id_key_name: doc_id}
IdPatch(id_key_name, doc_id) == [f \in {id_key_name} |-> doc_id]

\* mutant: any existing document passes the guard
GuardPassesAnyOwner(doc, uid) == doc.exists

\* mutant: a document without "uid" passes the guard (get("uid", uid))
GuardPassesMissingUid(doc, uid) ==
    doc.exists /\ ("uid" \in DOMAIN doc.fields => doc.fields["uid"] = uid)

\* the guard of update and delete: doc.exists and doc.to_dict().get("uid") == uid
GuardPasses(doc, uid) == doc.exists /\ Get(doc.fields, "uid") = uid

----------------------------------------------------------------------------
(* State *)

NoCall ==
    [op |-> "none", coll |-> "users", id |-> None, data |-> EmptyDict,
     kv |-> EmptyDict, k |-> "uid", uid |-> None, ret |-> None,
     before |-> [C \in Collections |-> EmptyDict]]

NoFrame ==
    [op |-> "none", coll |-> "users", id |-> None, data |-> EmptyDict,
     k |-> "uid", uid |-> None, ret |-> None,
     seen |-> [exists |-> FALSE, fields |-> EmptyDict],
     at_write |-> [exists |-> FALSE, fields |-> EmptyDict]]

Procs == {1, 2}

Init ==
    /\ store = [C \in Collections |-> EmptyDict]
    /\ now = 1
    /\ issued = 0
    /\ nops = 0
    /\ call = NoCall
    /\ pc = [p \in Procs |-> "idle"]
    /\ frame = [p \in Procs |-> NoFrame]
    /\ touched = {}

----------------------------------------------------------------------------
(* Spec: each call runs alone *)

Record(op, C, id, data, kv, k, uid, ret) ==
    call' = [op |-> op, coll |-> C, id |-> id, data |-> data, kv |-> kv,
             k |-> k, uid |-> uid, ret |-> ret, before |-> store]

\* Firestore.add
Add(C, data, id_key_name) ==
    /\ nops < MaxOps
    /\ LET doc_id == NewId(issued)
           stamped == Stamp(data, now)
           inserted == SetDoc(store, C, doc_id, stamped)
       IN  /\ store' = UpdateDoc(inserted, C, doc_id, IdPatch(id_key_name, doc_id))
           /\ Record("add", C, doc_id, data, EmptyDict, id_key_name, None, doc_id)
    /\ issued' = issued + 1
    /\ now' = now + 1
    /\ nops' = nops + 1
    /\ UNCHANGED <<pc, frame, touched>>

\* Firestore.add_with_existing_id
AddWithExistingId(C, data, id_key_name) ==
    /\ nops < MaxOps
    /\ LET stamped == Stamp(data, now)
       IN  IF id_key_name \notin DOMAIN stamped
           THEN /\ store' = store
                /\ Record("add_with_existing_id", C, None, data, EmptyDict,
                          id_key_name, None, ValueError)
           ELSE /\ store' = SetDoc(store, C, stamped[id_key_name], stamped)
                /\ Record("add_with_existing_id", C, stamped[id_key_name], data,
                          EmptyDict, id_key_name, None, WriteResult(now))
    /\ now' = now + 1
    /\ nops' = nops + 1
    /\ UNCHANGED <<issued, pc, frame, touched>>

\* Firestore.update
Update(C, doc_id, update_dict, uid) ==
    /\ nops < MaxOps
    /\ LET applies ==
             IF uid # None
             THEN GuardPasses(Snapshot(store, C, doc_id), uid)
             ELSE Exists(store, C, doc_id)    \* else ref.update raises NotFound
       IN  /\ store' = IF applies THEN UpdateDoc(store, C, doc_id, update_dict) ELSE store
           /\ Record("update", C, doc_id, update_dict, EmptyDict, "uid", uid,
                     IF applies THEN True ELSE False)
    /\ nops' = nops + 1
    /\ UNCHANGED <<now, issued, pc, frame, touched>>

\* Firestore.update_where
UpdateWhere(C, key_values, update_dict) ==
    /\ nops < MaxOps
    /\ store' = [store EXCEPT ![C] =
                    [x \in DOMAIN @ |->
                        IF Matches(@[x], key_values) THEN Merge(@[x], update_dict) ELSE @[x]]]
    /\ Record("update_where", C, None, update_dict, key_values, "uid", None, True)
    /\ nops' = nops + 1
    /\ UNCHANGED <<now, issued, pc, frame, touched>>

\* Firestore.delete
Delete(C, doc_id, uid) ==
    /\ nops < MaxOps
    /\ LET deletes ==
             IF uid # None
             THEN GuardPasses(Snapshot(store, C, doc_id), uid)
             ELSE TRUE                        \* ref.delete() never raises NotFound
       IN  /\ store' = IF deletes THEN DeleteDoc(store, C, doc_id) ELSE store
           /\ Record("delete", C, doc_id, EmptyDict, EmptyDict, "uid", uid,
                     IF deletes THEN True ELSE False)
    /\ nops' = nops + 1
    /\ UNCHANGED <<now, issued, pc, frame, touched>>

\* document ids passed to update and delete: the stored keys and a missing one
TargetKeys(C) == DOMAIN store[C] \cup {NoSuchKey}

Next ==
    \/ \E C \in Collections, data \in DataSet, k \in IdKeyNames : Add(C, data, k)
    \/ \E C \in Collections, data \in DataSet, k \in IdKeyNames : AddWithExistingId(C, data, k)
    \/ \E C \in Collections, patch \in Patches, uid \in Guards :
          \E id \in TargetKeys(C) : Update(C, id, patch, uid)
    \/ \E C \in Collections, kv \in Filters, patch \in Patches : UpdateWhere(C, kv, patch)
    \/ \E C \in Collections, uid \in Guards :
          \E id \in TargetKeys(C) : Delete(C, id, uid)

Spec == Init /\ [][Next]_vars

----------------------------------------------------------------------------
(* SpecI: callers interleave at the round trips to the store.              *)
(* pc[p] is where caller p stands: "idle" (between calls; frame[p] is its  *)
(* last call and result), "add_inserted" (add, between its two writes),    *)
(* "update_read" / "delete_read" (guarded call, between read and write),   *)
(* "crashed" (stopped between the two writes of add).  frame[p].seen is    *)
(* the snapshot the guard read; frame[p].at_write is the document as it    *)
(* was when the call's last write reached the store; touched is the set of *)
(* (collection, key) written by update, delete or add_with_existing_id.    *)

Frame(op, C, id, data, k, uid, ret, seen, at_write) ==
    [op |-> op, coll |-> C, id |-> id, data |-> data, k |-> k, uid |-> uid,
     ret |-> ret, seen |-> seen, at_write |-> at_write]

NoSnapshot == [exists |-> FALSE, fields |-> EmptyDict]

\* Firestore.add, first write: ref.add(data)
AddInsert(p, C, data, id_key_name) ==
    /\ pc[p] = "idle" /\ nops < MaxCalls
    /\ LET doc_id == NewId(issued)
       IN  /\ store' = SetDoc(store, C, doc_id, Stamp(data, now))
           /\ frame' = [frame EXCEPT ![p] =
                  Frame("add", C, doc_id, data, id_key_name, None, None, NoSnapshot, NoSnapshot)]
    /\ issued' = issued + 1
    /\ now' = now + 1
    /\ pc' = [pc EXCEPT ![p] = "add_inserted"]
    /\ nops' = nops + 1
    /\ UNCHANGED <<call, touched>>

\* Firestore.add, second write: ref.document(doc_id).update({id_key_name: doc_id});
\* NotFound propagates when the document is gone
AddPatch(p) ==
    /\ pc[p] = "add_inserted"
    /\ LET f == frame[p]
       IN  IF Exists(store, f.coll, f.id)
           THEN /\ store' = UpdateDoc(store, f.coll, f.id, IdPatch(f.k, f.id))
                /\ frame' = [frame EXCEPT ![p].ret = f.id]
           ELSE /\ store' = store
                /\ frame' = [frame EXCEPT ![p].ret = NotFoundError]
    /\ pc' = [pc EXCEPT ![p] = "idle"]
    /\ UNCHANGED <<now, issued, nops, call, touched>>

\* mutant: the failure of the second write is swallowed and add returns the id
AddPatchFailsSwallowed(p) ==
    /\ pc[p] = "add_inserted"
    /\ frame' = [frame EXCEPT ![p].ret = frame[p].id]
    /\ pc' = [pc EXCEPT ![p] = "idle"]
    /\ UNCHANGED <<store, now, issued, nops, call, touched>>

\* Firestore.add, second write fails in the store: nothing is written and
\* the exception leaves add (there is no try around it)
AddPatchFails(p) ==
    /\ pc[p] = "add_inserted"
    /\ frame' = [frame EXCEPT ![p].ret = StoreError]
    /\ pc' = [pc EXCEPT ![p] = "idle"]
    /\ UNCHANGED <<store, now, issued, nops, call, touched>>

\* the process stops between the two writes of add
Crash(p) ==
    /\ pc[p] = "add_inserted"
    /\ pc' = [pc EXCEPT ![p] = "crashed"]
    /\ UNCHANGED <<store, now, issued, nops, call, frame, touched>>

\* Firestore.add_with_existing_id: one write
AddWithExistingIdI(p, C, data, id_key_name) ==
    /\ pc[p] = "idle" /\ nops < MaxCalls
    /\ LET stamped == Stamp(data, now)
       IN  IF id_key_name \notin DOMAIN stamped
           THEN /\ UNCHANGED <<store, touched>>
                /\ frame' = [frame EXCEPT ![p] =
                       Frame("add_with_existing_id", C, None, data, id_key_name, None,
                             ValueError, NoSnapshot, NoSnapshot)]
           ELSE /\ store' = SetDoc(store, C, stamped[id_key_name], stamped)
                /\ touched' = touched \cup {<<C, stamped[id_key_name]>>}
                /\ frame' = [frame EXCEPT ![p] =
                       Frame("add_with_existing_id", C, stamped[id_key_name], data,
                             id_key_name, None, WriteResult(now), NoSnapshot,
                             Snapshot(store, C, stamped[id_key_name]))]
    /\ now' = now + 1
    /\ nops' = nops + 1
    /\ UNCHANGED <<issued, call, pc>>

\* Firestore.update with uid: doc = ref.get()
UpdateRead(p, C, doc_id, update_dict, uid) ==
    /\ pc[p] = "idle" /\ nops < MaxCalls
    /\ uid # None
    /\ frame' = [frame EXCEPT ![p] =
           Frame("update", C, doc_id, update_dict, "uid", uid, None,
                 Snapshot(store, C, doc_id), NoSnapshot)]
    /\ pc' = [pc EXCEPT ![p] = "update_read"]
    /\ nops' = nops + 1
    /\ UNCHANGED <<store, now, issued, call, touched>>

\* Firestore.update with uid: the guard on the snapshot, then ref.update
UpdateWrite(p) ==
    /\ pc[p] = "update_read"
    /\ LET f == frame[p]
           applies == GuardPasses(f.seen, f.uid) /\ Exists(store, f.coll, f.id)
       IN  /\ store' = IF applies THEN UpdateDoc(store, f.coll, f.id, f.data) ELSE store
           /\ touched' = IF applies THEN touched \cup {<<f.coll, f.id>>} ELSE touched
           /\ frame' = [frame EXCEPT ![p].ret = IF applies THEN True ELSE False,
                                     ![p].at_write = Snapshot(store, f.coll, f.id)]
    /\ pc' = [pc EXCEPT ![p] = "idle"]
    /\ UNCHANGED <<now, issued, nops, call>>

\* Firestore.update without uid: one write
UpdateDirect(p, C, doc_id, update_dict) ==
    /\ pc[p] = "idle" /\ nops < MaxCalls
    /\ LET applies == Exists(store, C, doc_id)
       IN  /\ store' = IF applies THEN UpdateDoc(store, C, doc_id, update_dict) ELSE store
           /\ touched' = IF applies THEN touched \cup {<<C, doc_id>>} ELSE touched
           /\ frame' = [frame EXCEPT ![p] =
                  Frame("update", C, doc_id, update_dict, "uid", None,
                        IF applies THEN True ELSE False, NoSnapshot,
                        Snapshot(store, C, doc_id))]
    /\ nops' = nops + 1
    /\ UNCHANGED <<now, issued, call, pc>>

\* Firestore.delete with uid: doc = ref.get()
DeleteRead(p, C, doc_id, uid) ==
    /\ pc[p] = "idle" /\ nops < MaxCalls
    /\ uid # None
    /\ frame' = [frame EXCEPT ![p] =
           Frame("delete", C, doc_id, EmptyDict, "uid", uid, None,
                 Snapshot(store, C, doc_id), NoSnapshot)]
    /\ pc' = [pc EXCEPT ![p] = "delete_read"]
    /\ nops' = nops + 1
    /\ UNCHANGED <<store, now, issued, call, touched>>

\* Firestore.delete with uid: the guard on the snapshot, then ref.delete
DeleteWrite(p) ==
    /\ pc[p] = "delete_read"
    /\ LET f == frame[p]
           deletes == GuardPasses(f.seen, f.uid)
       IN  /\ store' = IF deletes THEN DeleteDoc(store, f.coll, f.id) ELSE store
           /\ touched' = IF deletes THEN touched \cup {<<f.coll, f.id>>} ELSE touched
           /\ frame' = [frame EXCEPT ![p].ret = IF deletes THEN True ELSE False,
                                     ![p].at_write = Snapshot(store, f.coll, f.id)]
    /\ pc' = [pc EXCEPT ![p] = "idle"]
    /\ UNCHANGED <<now, issued, nops, call>>

\* Firestore.delete without uid: one write
DeleteDirect(p, C, doc_id) ==
    /\ pc[p] = "idle" /\ nops < MaxCalls
    /\ store' = DeleteDoc(store, C, doc_id)
    /\ touched' = touched \cup {<<C, doc_id>>}
    /\ frame' = [frame EXCEPT ![p] =
           Frame("delete", C, doc_id, EmptyDict, "uid", None, True, NoSnapshot,
                 Snapshot(store, C, doc_id))]
    /\ nops' = nops + 1
    /\ UNCHANGED <<now, issued, call, pc>>

\* the calls of SpecI work on one collection, with these arguments
CollectionsI == {"users"}
DataSetI == {[f \in {"uid"} |-> Str(1)], [f \in {"name"} |-> Str(1)]}
PatchesI == {[f \in {g} |-> Str(2)] : g \in {"uid", "name"}}
GuardsI == {Str(1)}

NextI ==
    \/ \E p \in Procs, C \in CollectionsI, data \in DataSetI, k \in IdKeyNames :
          AddInsert(p, C, data, k)
    \/ \E p \in Procs : AddPatch(p)
    \/ \E p \in Procs : AddPatchFails(p)
    \/ \E p \in Procs : Crash(p)
    \/ \E p \in Procs, C \in CollectionsI, data \in DataSetI, k \in IdKeyNames :
          AddWithExistingIdI(p, C, data, k)
    \/ \E p \in Procs, C \in CollectionsI, patch \in PatchesI, uid \in GuardsI :
          \E id \in TargetKeys(C) : UpdateRead(p, C, id, patch, uid)
    \/ \E p \in Procs : UpdateWrite(p)
    \/ \E p \in Procs, C \in CollectionsI, patch \in PatchesI :
          \E id \in TargetKeys(C) : UpdateDirect(p, C, id, patch)
    \/ \E p \in Procs, C \in CollectionsI, uid \in GuardsI :
          \E id \in TargetKeys(C) : DeleteRead(p, C, id, uid)
    \/ \E p \in Procs : DeleteWrite(p)
    \/ \E p \in Procs, C \in CollectionsI :
          \E id \in TargetKeys(C) : DeleteDirect(p, C, id)

SpecI == Init /\ [][NextI]_vars

----------------------------------------------------------------------------
(* Properties of Spec.  `call` is the last call: its arguments, its result *)
(* and the store before it.                                                *)

\* new is old with patch merged in: patched fields take the patch's value,
\* every other field keeps its own
MergedInto(old, patch, new) ==
    /\ DOMAIN new = DOMAIN old \cup DOMAIN patch
    /\ \A f \in DOMAIN patch : new[f] = patch[f]
    /\ \A f \in DOMAIN old \ DOMAIN patch : new[f] = old[f]

\* every document other than the one at (C, id) is the same in b and s
OthersSame(b, s, C, id) ==
    \A D \in Collections :
        /\ DOMAIN b[D] \ (IF D = C THEN {id} ELSE {}) = DOMAIN s[D] \ (IF D = C THEN {id} ELSE {})
        /\ \A x \in DOMAIN b[D] \cap DOMAIN s[D] : (D # C \/ x # id) => b[D][x] = s[D][x]

\* a document exists at (C, id) in b and its "uid" field is u
OwnedBy(b, C, id, u) ==
    /\ id \in DOMAIN b[C]
    /\ "uid" \in DOMAIN b[C][id]
    /\ b[C][id]["uid"] = u

\* C1: a guarded update returns true and merges the patch into the document
\* exactly when a document exists at id whose stored "uid" equals the guard;
\* otherwise it returns false and the whole store is as it was.
C1_GuardedUpdate ==
    (call.op = "update" /\ call.uid # None) =>
        IF OwnedBy(call.before, call.coll, call.id, call.uid)
        THEN /\ call.ret = True
             /\ call.id \in DOMAIN store[call.coll]
             /\ MergedInto(call.before[call.coll][call.id], call.data,
                           store[call.coll][call.id])
             /\ OthersSame(call.before, store, call.coll, call.id)
        ELSE /\ call.ret = False
             /\ store = call.before

C1_Witness ==
    /\ call.op = "update" /\ call.uid # None /\ call.ret = True
    /\ store # call.before
    /\ \E x \in DOMAIN store[call.coll] : x # call.id

\* C2: a guarded delete removes the document and returns true exactly when a
\* document exists at id whose stored "uid" equals the guard; otherwise it
\* returns false and the store (the document included) is as it was.
C2_GuardedDelete ==
    (call.op = "delete" /\ call.uid # None) =>
        IF OwnedBy(call.before, call.coll, call.id, call.uid)
        THEN /\ call.ret = True
             /\ call.id \notin DOMAIN store[call.coll]
             /\ OthersSame(call.before, store, call.coll, call.id)
        ELSE /\ call.ret = False
             /\ store = call.before

C2_Witness ==
    /\ call.op = "delete" /\ call.uid # None /\ call.ret = True
    /\ call.id \in DOMAIN call.before[call.coll]
    /\ call.id \notin DOMAIN store[call.coll]

\* C3: an update without guard returns true and merges the patch whenever a
\* document exists at id; when none exists it returns false (the failed write
\* is not propagated), creates no document and changes nothing.
C3_UnguardedUpdate ==
    (call.op = "update" /\ call.uid = None) =>
        IF call.id \in DOMAIN call.before[call.coll]
        THEN /\ call.ret = True
             /\ call.id \in DOMAIN store[call.coll]
             /\ MergedInto(call.before[call.coll][call.id], call.data,
                           store[call.coll][call.id])
             /\ OthersSame(call.before, store, call.coll, call.id)
        ELSE /\ call.ret = False
             /\ store = call.before

C3_Witness ==
    /\ call.op = "update" /\ call.uid = None /\ call.ret = False
    /\ call.id \notin DOMAIN call.before[call.coll]
    /\ \E C \in Collections : DOMAIN store[C] # {}

\* C4: add returns a store-assigned identifier that was no key before the
\* call; the document stored under it has field id_key_name equal to the
\* identifier (also when data had a value for it), has "added_at", and has
\* every other field of data unchanged; no other document is modified.
C4_Add ==
    call.op = "add" =>
        /\ call.ret = call.id
        /\ call.ret[1] = "id"
        /\ \A C \in Collections : call.ret \notin DOMAIN call.before[C]
        /\ call.ret \in DOMAIN store[call.coll]
        /\ LET doc == store[call.coll][call.ret]
           IN  /\ call.k \in DOMAIN doc /\ doc[call.k] = call.ret
               /\ "added_at" \in DOMAIN doc
               /\ \A f \in DOMAIN call.data \ {call.k, "added_at"} :
                     f \in DOMAIN doc /\ doc[f] = call.data[f]
        /\ OthersSame(call.before, store, call.coll, call.ret)

C4_Witness ==
    /\ call.op = "add"
    /\ call.k \in DOMAIN call.data
    /\ DOMAIN call.data \ {call.k} # {}
    /\ DOMAIN call.before[call.coll] # {}

\* C5 as stated: whenever id_key_name is no field of data,
\* add_with_existing_id raises the invalid-argument error and the store is
\* as it was.
C5_MissingKeyRaises ==
    (call.op = "add_with_existing_id" /\ call.k \notin DOMAIN call.data) =>
        /\ call.ret = ValueError
        /\ store = call.before

\* C6 as stated: when id_key_name is a field of data, add_with_existing_id
\* writes the document at key data[id_key_name] and returns that key.
C6_ReturnsIdentifier ==
    (call.op = "add_with_existing_id" /\ call.k \in DOMAIN call.data) =>
        /\ call.data[call.k] \in DOMAIN store[call.coll]
        /\ call.ret = call.data[call.k]

\* C7: update_where merges the patch into every document of the collection
\* that satisfies all the equality constraints, leaves every other document
\* as it was, and returns true whatever the number of matches.
C7_UpdateWhere ==
    call.op = "update_where" =>
        /\ call.ret = True
        /\ \A D \in Collections : DOMAIN store[D] = DOMAIN call.before[D]
        /\ \A D \in Collections \ {call.coll} : store[D] = call.before[D]
        /\ \A x \in DOMAIN call.before[call.coll] :
             LET old == call.before[call.coll][x]
                 new == store[call.coll][x]
             IN  IF \A f \in DOMAIN call.kv : f \in DOMAIN old /\ old[f] = call.kv[f]
                 THEN MergedInto(old, call.data, new)
                 ELSE new = old

C7_Witness ==
    /\ call.op = "update_where" /\ call.ret = True
    /\ call.kv # EmptyDict
    /\ \E x, y \in DOMAIN call.before[call.coll] :
          /\ store[call.coll][x] # call.before[call.coll][x]
          /\ ~ (\A f \in DOMAIN call.kv :
                   f \in DOMAIN call.before[call.coll][y]
                   /\ call.before[call.coll][y][f] = call.kv[f])

\* C8 as stated: the "added_at" of a stored document never changes for as
\* long as the document exists, whatever call is made.
C8_AddedAtNeverChanges ==
    \A C \in Collections :
        \A x \in DOMAIN call.before[C] \cap DOMAIN store[C] :
            Get(store[C][x], "added_at") = Get(call.before[C][x], "added_at")

----------------------------------------------------------------------------
(* Properties of SpecI *)

\* caller p is between the two writes of its add
BetweenWrites(p) == pc[p] = "add_inserted"

\* caller p left its add between the two writes: it stopped, or the second
\* write failed in the store
Abandoned(p) ==
    \/ pc[p] = "crashed"
    \/ pc[p] = "idle" /\ frame[p].op = "add" /\ frame[p].ret = StoreError

\* no update, delete or add_with_existing_id has written the document of p's add
Untouched(p) == <<frame[p].coll, frame[p].id>> \notin touched

\* C9: add is two writes.  Between them, and for ever after when the caller
\* stops or the second write fails, the document is in the store as first
\* written (data and "added_at", the identifier not in it) until some other
\* call writes that key: add itself neither completes nor removes it; and an
\* add that comes back to its caller either returns the identifier, patched
\* into the document, or has raised.
C9_AddTwoWrites ==
    \A p \in Procs :
        LET f == frame[p]
        IN  /\ ((BetweenWrites(p) \/ Abandoned(p)) /\ Untouched(p)) =>
                  /\ f.id \in DOMAIN store[f.coll]
                  /\ DOMAIN store[f.coll][f.id] = DOMAIN f.data \cup {"added_at"}
                  /\ \A g \in DOMAIN f.data \ {"added_at"} :
                        store[f.coll][f.id][g] = f.data[g]
                  /\ Get(store[f.coll][f.id], f.k) # f.id
            /\ (pc[p] = "idle" /\ f.op = "add" /\ Untouched(p)) =>
                  \/ f.ret \in {StoreError, NotFoundError}
                  \/ /\ f.ret = f.id
                     /\ f.id \in DOMAIN store[f.coll]
                     /\ Get(store[f.coll][f.id], f.k) = f.id

C9_Witness ==
    \E p, q \in Procs :
        /\ p # q
        /\ pc[p] = "crashed" /\ Untouched(p)
        /\ frame[p].k \notin DOMAIN store[frame[p].coll][frame[p].id]
        /\ pc[q] = "idle" /\ frame[q].op = "update" /\ frame[q].ret = True

\* C10 as stated: a guarded update or delete that reports success took
\* effect on a document that existed and whose stored "uid" was the guard
\* value at the moment of the write.
C10_GuardHoldsUnderInterleaving ==
    \A p \in Procs :
        LET f == frame[p]
        IN  (pc[p] = "idle" /\ f.op \in {"update", "delete"} /\ f.uid # None /\ f.ret = True) =>
                /\ f.at_write.exists
                /\ Get(f.at_write.fields, "uid") = f.uid

====
